---- MODULE Spec2Model ----
(***************************************************************************)
(* A model of the `trace` procedural macro (src/src/lib.rs).               *)
(*                                                                         *)
(* Four parts share this module:                                           *)
(*   SpecRun   - the code generated by construct_traced_block, executed by *)
(*               several threads that call traced functions;               *)
(*   SpecFmt   - the format-string compiler parse_fmt_str;                 *)
(*   SpecWalk  - the declaration walker transform_item / transform_mod /   *)
(*               transform_impl driven by the macro entry point `trace`;   *)
(*   SpecBlock - construct_traced_block and extract_arg_idents.            *)
(* Strings are sequences of one-character strings.                         *)
(***************************************************************************)
EXTENDS Integers, Sequences, FiniteSets, TLC

VARIABLES
    \* ---- run time of the generated wrapper ----
    DEPTH,            \* thread -> DEPTH declaration -> value of the thread-local cell
    stack,            \* thread -> sequence of frames of traced calls
    unwinding,        \* thread -> TRUE while a panic propagates
    line,             \* thread -> the line the thread printed last
    clean,            \* thread -> TRUE while every call so far returned normally
    ncalls,           \* thread -> number of traced calls started
    pause,            \* args.pause of the traced functions
    \* ---- parse_fmt_str ----
    fmt_str,          \* the template handed to parse_fmt_str
    idents0,          \* the arg_idents handed to parse_fmt_str
    fmt_iter,         \* the characters not yet consumed
    arg_idents,       \* names still available
    kept_arg_idents,  \* names used so far, in order of first use
    fixed_format_str, \* the positional format string built so far
    result,           \* "running", "ok" or "err"
    error,            \* the message of the syn::Error, <<>> when none
    emitted,          \* log of the placeholders emitted so far
    \* ---- declaration walker ----
    root,             \* the item the outermost #[trace] is attached to
    outer,            \* the Args of the outermost #[trace]
    expansions,       \* number of invocations of the macro so far
    wstatus,          \* "pending", "expanding", "done", "error" or "panic"
    \* ---- construct_traced_block ----
    cb_args,          \* the Args of the #[trace(..)]
    cb_attr_applied,  \* "Directly" or "Indirectly"
    cb_sig,           \* the signature of the function
    cb                \* the locals of construct_traced_block

rvars == <<DEPTH, stack, unwinding, line, clean, ncalls, pause>>
fvars == <<fmt_str, idents0, fmt_iter, arg_idents, kept_arg_idents,
           fixed_format_str, result, error, emitted>>
wvars == <<root, outer, expansions, wstatus>>
bvars == <<cb_args, cb_attr_applied, cb_sig, cb>>
vars == <<rvars, fvars, wvars, bvars>>

(***************************************************************************)
(* Bounds                                                                  *)
(***************************************************************************)
MaxCalls == 4

\* the threads of tests/test_thread.rs: the main thread and the spawned one
Threads == {"main", "spawned"}

\* the scopes that declare a DEPTH: the crate root (init_depth_var!) and a
\* traced mod, where transform_mod inserts one (lines 276-283)
Mods == {"crate", "inner"}

\* foo and bar of tests/test_thread.rs, and a function of the traced mod
Fns == {"foo", "bar", "inner::foo"}

\* the mod a traced function is declared in: its wrapper names DEPTH, which
\* is the declaration of that mod
mod_of(f) == IF f = "inner::foo" THEN "inner" ELSE "crate"

Last(s) == s[Len(s)]
Front(s) == SubSeq(s, 1, Len(s) - 1)

(***************************************************************************)
(* Part 1: the generated wrapper (construct_traced_block, lines 422-431)   *)
(*                                                                         *)
(*   { printer!(entering_format, "", args.., depth = DEPTH.get());         *)
(*     pause_stmt                                                          *)
(*     DEPTH.set(DEPTH.get() + 1);                                         *)
(*     let fn_return_value = original_block;                               *)
(*     DEPTH.set(DEPTH.get() - 1);                                         *)
(*     print_exit                                                          *)
(*     pause_stmt                                                          *)
(*     fn_return_value }                                                   *)
(*                                                                         *)
(* A frame is one activation of a traced function: fn its name, pc the     *)
(* statement of the wrapper it is at, d0 the value of DEPTH when the call  *)
(* started, ind the indentation of its entry line (-1 before it printed).  *)
(***************************************************************************)
NoLine == [kind |-> "none", fn |-> "", indent |-> 0]

\* DEPTH.with(|d| d.get()) in the wrapper of f on thread t
depth(t, f) == DEPTH[t][mod_of(f)]

Frame(f, d) == [fn |-> f, pc |-> "print_enter", d0 |-> d, ind |-> -1]

Top(t) == Last(stack[t])

AtPc(t, p) == /\ ~unwinding[t]
              /\ stack[t] # <<>>
              /\ Top(t).pc = p

SetTop(t, fr) == [stack EXCEPT ![t] = Front(@) \o <<fr>>]

Goto(t, p) == SetTop(t, [Top(t) EXCEPT !.pc = p])

unused_f == /\ fmt_str = <<>> /\ idents0 = <<>> /\ fmt_iter = <<>>
            /\ arg_idents = <<>> /\ kept_arg_idents = <<>>
            /\ fixed_format_str = <<>> /\ result = "unused"
            /\ error = <<>> /\ emitted = <<>>

unused_w == /\ root = [kind |-> "none"] /\ outer = [kind |-> "none"]
            /\ expansions = 0 /\ wstatus = "unused"

unused_b == /\ cb_args = [kind |-> "none"] /\ cb_attr_applied = "none"
            /\ cb_sig = [kind |-> "none"] /\ cb = [pc |-> "unused"]

unused_r == /\ DEPTH = [t \in Threads |-> [m \in Mods |-> 0]]
            /\ stack = [t \in Threads |-> <<>>]
            /\ unwinding = [t \in Threads |-> FALSE]
            /\ line = [t \in Threads |-> NoLine]
            /\ clean = [t \in Threads |-> TRUE]
            /\ ncalls = [t \in Threads |-> 0]
            /\ pause = FALSE

\* static DEPTH: Cell<usize> = Cell::new(0), one per thread for each
\* declaration (init_depth_var, lines 99-113; transform_mod, lines 276-283)
InitRun == /\ DEPTH = [t \in Threads |-> [m \in Mods |-> 0]]
           /\ stack = [t \in Threads |-> <<>>]
           /\ unwinding = [t \in Threads |-> FALSE]
           /\ line = [t \in Threads |-> NoLine]
           /\ clean = [t \in Threads |-> TRUE]
           /\ ncalls = [t \in Threads |-> 0]
           /\ pause \in BOOLEAN
           /\ unused_f
           /\ unused_w
           /\ unused_b

\* the number of traced calls the threads of S started
RECURSIVE calls_started(_)
calls_started(S) ==
    IF S = {} THEN 0
    ELSE LET t == CHOOSE u \in S : TRUE
         IN  ncalls[t] + calls_started(S \ {t})

\* a traced function f is called, from untraced code or from the original
\* body of the traced function on top of the stack; a run starts at most
\* MaxCalls traced calls
Call(t, f) ==
    /\ ~unwinding[t]
    /\ calls_started(Threads) < MaxCalls
    /\ IF stack[t] = <<>> THEN TRUE ELSE Top(t).pc = "body"
    /\ stack' = [stack EXCEPT ![t] = Append(@, Frame(f, depth(t, f)))]
    /\ ncalls' = [ncalls EXCEPT ![t] = @ + 1]
    /\ UNCHANGED <<DEPTH, unwinding, line, clean, pause, fvars, wvars, bvars>>

\* printer!(entering_format, "", .., depth = DEPTH.with(|d| d.get()))
PrintEnter(t) ==
    /\ AtPc(t, "print_enter")
    /\ line' = [line EXCEPT ![t] =
                  [kind |-> "enter", fn |-> Top(t).fn, indent |-> depth(t, Top(t).fn)]]
    /\ stack' = SetTop(t, [Top(t) EXCEPT
                             !.pc = IF pause THEN "pause_enter" ELSE "inc",
                             !.ind = depth(t, Top(t).fn)])
    /\ UNCHANGED <<DEPTH, unwinding, clean, ncalls, pause, fvars, wvars, bvars>>

\* pause_stmt after the entry line: a line of input arrives
PauseEnter(t) ==
    /\ AtPc(t, "pause_enter")
    /\ stack' = Goto(t, "inc")
    /\ UNCHANGED <<DEPTH, unwinding, line, clean, ncalls, pause, fvars, wvars, bvars>>

\* DEPTH.with(|d| d.set(d.get() + 1))
IncDepth(t) ==
    /\ AtPc(t, "inc")
    /\ DEPTH' = [DEPTH EXCEPT ![t][mod_of(Top(t).fn)] = @ + 1]
    /\ stack' = Goto(t, "body")
    /\ UNCHANGED <<unwinding, line, clean, ncalls, pause, fvars, wvars, bvars>>

\* the original block falls through to its final value, which is bound to
\* fn_return_value
BodyValue(t) ==
    /\ AtPc(t, "body")
    /\ stack' = Goto(t, "dec")
    /\ UNCHANGED <<DEPTH, unwinding, line, clean, ncalls, pause, fvars, wvars, bvars>>

\* the original block executes `return` (or `?`): the block is spliced in
\* the function body, so control leaves the function at once
BodyReturn(t) ==
    /\ AtPc(t, "body")
    /\ stack' = [stack EXCEPT ![t] = Front(@)]
    /\ clean' = [clean EXCEPT ![t] = FALSE]
    /\ UNCHANGED <<DEPTH, unwinding, line, ncalls, pause, fvars, wvars, bvars>>

\* the original block panics: the frame is unwound
BodyPanic(t) ==
    /\ AtPc(t, "body")
    /\ stack' = [stack EXCEPT ![t] = Front(@)]
    /\ unwinding' = [unwinding EXCEPT ![t] = TRUE]
    /\ clean' = [clean EXCEPT ![t] = FALSE]
    /\ UNCHANGED <<DEPTH, line, ncalls, pause, fvars, wvars, bvars>>

\* the panic propagates through the caller's frame
Unwind(t) ==
    /\ unwinding[t]
    /\ stack[t] # <<>>
    /\ stack' = [stack EXCEPT ![t] = Front(@)]
    /\ UNCHANGED <<DEPTH, unwinding, line, clean, ncalls, pause, fvars, wvars, bvars>>

\* the panic is caught (catch_unwind) by the code that made the call
Catch(t) ==
    /\ unwinding[t]
    /\ unwinding' = [unwinding EXCEPT ![t] = FALSE]
    /\ UNCHANGED <<DEPTH, stack, line, clean, ncalls, pause, fvars, wvars, bvars>>

DecDepthSkipped(t) ==
    /\ AtPc(t, "dec")
    /\ stack' = Goto(t, "print_exit")
    /\ UNCHANGED <<DEPTH, unwinding, line, clean, ncalls, pause, fvars, wvars, bvars>>

\* DEPTH.with(|d| d.set(d.get() - 1))
DecDepth(t) ==
    /\ AtPc(t, "dec")
    /\ DEPTH' = [DEPTH EXCEPT ![t][mod_of(Top(t).fn)] = @ - 1]
    /\ stack' = Goto(t, "print_exit")
    /\ UNCHANGED <<unwinding, line, clean, ncalls, pause, fvars, wvars, bvars>>

\* print_exit: printer!(exiting_format, "", .., depth = DEPTH.with(|d| d.get()))
PrintExit(t) ==
    /\ AtPc(t, "print_exit")
    /\ line' = [line EXCEPT ![t] =
                  [kind |-> "exit", fn |-> Top(t).fn, indent |-> depth(t, Top(t).fn)]]
    /\ stack' = Goto(t, IF pause THEN "pause_exit" ELSE "ret")
    /\ UNCHANGED <<DEPTH, unwinding, clean, ncalls, pause, fvars, wvars, bvars>>

\* pause_stmt after the exit line
PauseExit(t) ==
    /\ AtPc(t, "pause_exit")
    /\ stack' = Goto(t, "ret")
    /\ UNCHANGED <<DEPTH, unwinding, line, clean, ncalls, pause, fvars, wvars, bvars>>

\* the block yields fn_return_value: the call returns to its caller
Return(t) ==
    /\ AtPc(t, "ret")
    /\ stack' = [stack EXCEPT ![t] = Front(@)]
    /\ UNCHANGED <<DEPTH, unwinding, line, clean, ncalls, pause, fvars, wvars, bvars>>

NextRun ==
    \E t \in Threads :
        \/ \E f \in Fns : Call(t, f)
        \/ PrintEnter(t)
        \/ PauseEnter(t)
        \/ IncDepth(t)
        \/ BodyValue(t)
        \/ BodyReturn(t)
        \/ BodyPanic(t)
        \/ Unwind(t)
        \/ Catch(t)
        \/ DecDepth(t)
        \/ PrintExit(t)
        \/ PauseExit(t)
        \/ Return(t)

SpecRun == InitRun /\ [][NextRun]_vars

\* a call of thread t finishes in this step, in whatever way
Finishes(t) == Len(stack'[t]) < Len(stack[t])

\* thread t takes this step
Steps(t) == \/ stack'[t] # stack[t]
            \/ unwinding'[t] # unwinding[t]

\* C1: whatever way the original body finishes (final value, early return,
\* propagated failure), DEPTH after the call equals DEPTH before the call.
DepthRestoredAfterCall ==
    [][\A t \in Threads : Finishes(t) => DEPTH'[t][mod_of(Top(t).fn)] = Top(t).d0]_vars

\* C2: every entry/exit line is indented by the number of traced calls that
\* enclose it on the emitting thread, and a step of one thread never changes
\* the DEPTH of another thread.
IndentIsThreadNesting ==
    [][\A t \in Threads :
         /\ (AtPc(t, "print_enter") \/ AtPc(t, "print_exit")) /\ Steps(t)
              => line'[t].indent = Len(stack[t]) - 1
         /\ Steps(t) => \A u \in Threads \ {t} : DEPTH'[u] = DEPTH[u]]_vars

\* the part of C2 that is about the threads alone
ThreadsDoNotInterfere ==
    [][\A t \in Threads :
         Steps(t) => \A u \in Threads \ {t} :
                        /\ DEPTH'[u] = DEPTH[u]
                        /\ line'[u] = line[u]]_vars

\* C3, as stated: while every call of the thread returned normally, a callee's entry
\* line is one level deeper than its caller's entry line, every exit line is
\* indented as the entry line of the same call, and DEPTH is back at its
\* pre-call value when a call returns.
NestedCallsIndent ==
    [][\A t \in Threads : clean[t] =>
         /\ AtPc(t, "print_enter") /\ Steps(t) /\ Len(stack[t]) > 1
              => line'[t].indent = stack[t][Len(stack[t]) - 1].ind + 1
         /\ AtPc(t, "print_exit") /\ Steps(t)
              => line'[t].indent = Top(t).ind
         /\ AtPc(t, "ret") /\ Steps(t)
              => DEPTH'[t][mod_of(Top(t).fn)] = Top(t).d0]_vars

\* the calls below the top of the stack of t whose function uses the DEPTH
\* declaration that f uses
enclosing_same_depth(t, f) ==
    Cardinality({ i \in 1..(Len(stack[t]) - 1) : mod_of(stack[t][i].fn) = mod_of(f) })

\* C3, amended: while every call of the thread returned normally, the entry
\* line of a callee that uses the DEPTH declaration of its caller (both are
\* declared in the same mod) is one level deeper than the caller's entry
\* line; every entry line is indented by the number of enclosing calls that
\* use the same DEPTH declaration; every exit line is indented as the entry
\* line of the same call; and that DEPTH is back at its pre-call value when
\* a call returns.
NestedCallsIndentSharedDepth ==
    [][\A t \in Threads : clean[t] =>
         /\ AtPc(t, "print_enter") /\ Steps(t)
              => /\ line'[t].indent = enclosing_same_depth(t, Top(t).fn)
                 /\ (Len(stack[t]) > 1
                       /\ mod_of(stack[t][Len(stack[t]) - 1].fn) = mod_of(Top(t).fn))
                      => line'[t].indent = stack[t][Len(stack[t]) - 1].ind + 1
         /\ AtPc(t, "print_exit") /\ Steps(t)
              => line'[t].indent = Top(t).ind
         /\ AtPc(t, "ret") /\ Steps(t)
              => DEPTH'[t][mod_of(Top(t).fn)] = Top(t).d0]_vars

\* foo has called bar twice, both calls returned, and foo is still running
SiblingCallsReturned ==
    \E t \in Threads :
        /\ clean[t]
        /\ ncalls[t] = 3
        /\ Len(stack[t]) = 1
        /\ stack[t][1].fn = "foo" /\ stack[t][1].pc = "body"
        /\ line[t] = [kind |-> "exit", fn |-> "bar", indent |-> stack[t][1].ind + 1]
        /\ depth(t, "foo") = stack[t][1].d0 + 1

\* C13: the entry line of a call is printed before its original body starts,
\* and whenever control returns from a call to its caller, by any path
\* through the body, the exit line of that call is the line printed last, after
\* the body finished.
ExitLineBeforeReturn ==
    [][\A t \in Threads :
         /\ AtPc(t, "body") => Top(t).ind # -1
         /\ (Finishes(t) /\ ~unwinding[t] /\ ~unwinding'[t])
               => /\ Top(t).pc = "ret"
                  /\ line[t].kind = "exit"
                  /\ line[t].fn = Top(t).fn]_vars

(***************************************************************************)
(* Part 2: the format-string compiler (parse_fmt_str, lines 455-579)       *)
(***************************************************************************)
MaxParts == 4

\* the pieces templates are put together from
Pieces == { <<"{">>, <<"}">>, <<":">>, <<"a">>, <<" ">>, <<"\n">>,
            <<"{", "{">>, <<"}", "}">>,
            <<"{", "a", "}">>, <<"{", "b", "}">>,
            <<"{", "a", ":", "a", "}">> }

RECURSIVE Flatten(_)
Flatten(ps) == IF ps = <<>> THEN <<>> ELSE Head(ps) \o Flatten(Tail(ps))

Templates == UNION { { Flatten(ps) : ps \in [1..n -> Pieces] } : n \in 0..MaxParts }

\* the parameter names of the traced function, as extract_arg_idents lists them
ArgLists == { <<>>, << <<"a">> >>, << <<"b">> >>,
              << <<"a">>, <<"b">> >>, << <<"b">>, <<"a">> >> }

\* char::is_whitespace: the Unicode White_Space characters. Written here are
\* U+0009 to U+000D, U+0020, U+0085, U+00A0 and U+1680; the others (U+2000 to
\* U+200A, U+2028, U+2029, U+202F, U+205F, U+3000) cannot stand in a string
\* of this language, so no character of the model is one of them.
is_whitespace(c) ==
    c \in {"\t", "\n", "", "\f", "\r", " ", "", " ", " "}

Digits == <<"0", "1", "2", "3", "4", "5", "6", "7", "8", "9">>

\* format!("{}", n) of a usize
RECURSIVE to_string(_)
to_string(n) == IF n < 10 THEN <<Digits[n + 1]>>
                ELSE to_string(n \div 10) \o <<Digits[(n % 10) + 1]>>

\* Iterator::position, 0-based, -1 for None
RECURSIVE position_from(_, _, _)
position_from(s, x, i) ==
    IF i > Len(s) THEN -1
    ELSE IF s[i] = x THEN i - 1
    ELSE position_from(s, x, i + 1)

position(s, x) == position_from(s, x, 1)

\* Vec::remove with a 0-based index
remove(s, index) == SubSeq(s, 1, index) \o SubSeq(s, index + 2, Len(s))

\* str::split_once(":"): <<left, right>>, or <<ident, "">> when there is no colon
split_once(ident) ==
    LET i == position(ident, ":")
    IN  IF i = -1 THEN <<ident, <<>>>>
        ELSE <<SubSeq(ident, 1, i), SubSeq(ident, i + 2, Len(ident))>>

\* the messages of the syn::Error values; a backquote of the source is
\* written as a single quote here
ErrTerminated ==
    <<"invalid format string: expected '}}' but string was terminated">>

ErrFound(c) == <<"invalid format string: expected '}', found '", c, "'">>

ErrUnmatched == <<"invalid format string: unmatched '}' found">>

ErrNotFound(ident) == <<"cannot find '">> \o ident \o <<"' in this scope.">>

\* skip_whitespace_and_check, lines 556-579
RECURSIVE skip_whitespace_and_check(_, _, _)
skip_whitespace_and_check(iter, last_char, ident_char) ==
    IF iter = <<>>
    THEN [ok |-> TRUE, iter |-> iter, last_char |-> last_char, err |-> <<>>]
    ELSE LET blank_char == Head(iter)
         IN  IF blank_char = "}"
             THEN [ok |-> TRUE, iter |-> Tail(iter), last_char |-> "}", err |-> <<>>]
             ELSE IF is_whitespace(blank_char)
             THEN skip_whitespace_and_check(Tail(iter), ident_char, ident_char)
             ELSE [ok |-> FALSE, iter |-> Tail(iter), last_char |-> last_char,
                   err |-> ErrFound(blank_char)]

fix_interpolated_zero_based(last_char, ident, args, kept) ==
    IF last_char # "}"
    THEN [ok |-> FALSE, out |-> <<>>, args |-> args, kept |-> kept,
          err |-> ErrTerminated, name |-> <<>>]
    ELSE LET sp == split_once(ident)
             name == sp[1]
             custom_format == sp[2]
         IN  IF position(kept, name) # -1
             THEN [ok |-> TRUE,
                   out |-> <<"{">> \o to_string(position(kept, name))
                             \o <<":">> \o custom_format \o <<"}">>,
                   args |-> args, kept |-> kept, err |-> <<>>, name |-> name]
             ELSE IF position(args, name) # -1
             THEN LET kept2 == Append(kept, args[position(args, name) + 1])
                  IN  [ok |-> TRUE,
                       out |-> <<"{">> \o to_string(Len(kept2))
                                 \o <<":">> \o custom_format \o <<"}">>,
                       args |-> remove(args, position(args, name)),
                       kept |-> kept2, err |-> <<>>, name |-> name]
             ELSE [ok |-> FALSE, out |-> <<>>, args |-> args, kept |-> kept,
                   err |-> ErrNotFound(name), name |-> name]

fix_interpolated_eager_remove(last_char, ident, args, kept) ==
    IF last_char # "}"
    THEN [ok |-> FALSE, out |-> <<>>, args |-> args, kept |-> kept,
          err |-> ErrTerminated, name |-> <<>>]
    ELSE LET sp == split_once(ident)
             name == sp[1]
             custom_format == sp[2]
         IN  IF position(kept, name) # -1
             THEN [ok |-> TRUE,
                   out |-> <<"{">> \o to_string(position(kept, name) + 1)
                             \o <<":">> \o custom_format \o <<"}">>,
                   args |-> args, kept |-> kept, err |-> <<>>, name |-> name]
             ELSE IF position(args, name) # -1
             THEN LET kept2 == Append(kept, args[position(args, name) + 1])
                  IN  [ok |-> TRUE,
                       out |-> <<"{">> \o to_string(Len(kept2))
                                 \o <<":">> \o custom_format \o <<"}">>,
                       args |-> remove(args, position(args, name)),
                       kept |-> kept2, err |-> <<>>, name |-> name]
             ELSE [ok |-> FALSE, out |-> <<>>, args |-> SubSeq(args, 2, Len(args)), kept |-> kept,
                   err |-> ErrNotFound(ident), name |-> name]

fix_interpolated_unchecked(last_char, ident, args, kept) ==
    LET sp == split_once(ident)
        name == sp[1]
        custom_format == sp[2]
    IN  IF position(kept, name) # -1
        THEN [ok |-> TRUE,
              out |-> <<"{">> \o to_string(position(kept, name) + 1)
                        \o <<":">> \o custom_format \o <<"}">>,
              args |-> args, kept |-> kept, err |-> <<>>, name |-> name]
        ELSE IF position(args, name) # -1
        THEN LET kept2 == Append(kept, args[position(args, name) + 1])
             IN  [ok |-> TRUE,
                  out |-> <<"{">> \o to_string(Len(kept2))
                            \o <<":">> \o custom_format \o <<"}">>,
                  args |-> remove(args, position(args, name)),
                  kept |-> kept2, err |-> <<>>, name |-> name]
        ELSE [ok |-> FALSE, out |-> <<>>, args |-> args, kept |-> kept,
              err |-> ErrNotFound(name), name |-> name]

\* fix_interpolated, lines 491-524
fix_interpolated(last_char, ident, args, kept) ==
    IF last_char # "}"
    THEN [ok |-> FALSE, out |-> <<>>, args |-> args, kept |-> kept,
          err |-> ErrTerminated, name |-> <<>>]
    ELSE LET sp == split_once(ident)
             name == sp[1]
             custom_format == sp[2]
         IN  IF position(kept, name) # -1
             THEN [ok |-> TRUE,
                   out |-> <<"{">> \o to_string(position(kept, name) + 1)
                             \o <<":">> \o custom_format \o <<"}">>,
                   args |-> args, kept |-> kept, err |-> <<>>, name |-> name]
             ELSE IF position(args, name) # -1
             THEN LET kept2 == Append(kept, args[position(args, name) + 1])
                  IN  [ok |-> TRUE,
                       out |-> <<"{">> \o to_string(Len(kept2))
                                 \o <<":">> \o custom_format \o <<"}">>,
                       args |-> remove(args, position(args, name)),
                       kept |-> kept2, err |-> <<>>, name |-> name]
             ELSE [ok |-> FALSE, out |-> <<>>, args |-> args, kept |-> kept,
                   err |-> ErrNotFound(name), name |-> name]

\* the while loop of parse_interpolated, lines 531-548: the characters left,
\* last_char and ident when the loop ends, or the error of the `?`
RECURSIVE scan_ident(_, _, _)
scan_ident(iter, last_char, ident) ==
    IF iter = <<>>
    THEN [ok |-> TRUE, iter |-> iter, last_char |-> last_char, ident |-> ident,
          err |-> <<>>]
    ELSE LET ident_char == Head(iter)
         IN  IF ident_char = "}"
             THEN [ok |-> TRUE, iter |-> Tail(iter), last_char |-> "}",
                   ident |-> ident, err |-> <<>>]
             ELSE IF ~is_whitespace(ident_char)
             THEN scan_ident(Tail(iter), ident_char, Append(ident, ident_char))
             ELSE LET r == skip_whitespace_and_check(Tail(iter), ident_char, ident_char)
                  IN  IF r.ok
                      THEN scan_ident(r.iter, r.last_char, ident)
                      ELSE [ok |-> FALSE, iter |-> r.iter, last_char |-> r.last_char,
                            ident |-> ident, err |-> r.err]

\* parse_interpolated, lines 526-554
parse_interpolated(iter, args, kept) ==
    LET s == scan_ident(iter, " ", <<>>)
    IN  IF ~s.ok
        THEN [ok |-> FALSE, iter |-> s.iter, out |-> <<>>, args |-> args,
              kept |-> kept, err |-> s.err, name |-> <<>>, looked_up |-> FALSE]
        ELSE LET f == fix_interpolated(s.last_char, s.ident, args, kept)
             IN  [ok |-> f.ok, iter |-> s.iter, out |-> f.out, args |-> f.args,
                  kept |-> f.kept, err |-> f.err, name |-> f.name,
                  looked_up |-> s.last_char = "}"]

\* the state of one run of parse_fmt_str
FmtState(iter, fixed, args, kept, status, err, log) ==
    [iter |-> iter, fixed |-> fixed, args |-> args, kept |-> kept,
     status |-> status, err |-> err, emitted |-> log]

\* lines 459-461
FmtStart(template, idents) ==
    FmtState(template, <<>>, idents, <<>>, "running", <<>>, <<>>)

push_open_escape_single(fixed) == fixed \o <<"{">>

\* line 466: fixed_format_str.push_str("{{")
push_open_escape(fixed) == fixed \o <<"{", "{">>

\* line 483: fixed_format_str.push_str("}}")
push_close_escape(fixed) == fixed \o <<"}", "}">>

\* one iteration of the while loop of parse_fmt_str, lines 462-487
loop_body(st) ==
    LET fmt_char == Head(st.iter)
        rest == Tail(st.iter)
    IN  IF fmt_char = "{"
        THEN IF rest # <<>> /\ Head(rest) = "{"
             THEN [st EXCEPT !.iter = Tail(rest),
                             !.fixed = push_open_escape(st.fixed)]
             ELSE LET r == parse_interpolated(rest, st.args, st.kept)
                  IN  IF r.ok
                      THEN [st EXCEPT !.iter = r.iter,
                                      !.fixed = st.fixed \o r.out,
                                      !.args = r.args,
                                      !.kept = r.kept,
                                      !.emitted = Append(st.emitted,
                                          [ident |-> r.name, text |-> r.out])]
                      ELSE [st EXCEPT !.iter = r.iter,
                                      !.args = r.args,
                                      !.kept = r.kept,
                                      !.status = "err",
                                      !.err = r.err]
        ELSE IF fmt_char = "}"
        THEN IF rest = <<>> \/ Head(rest) # "}"
             THEN [st EXCEPT !.iter = IF rest = <<>> THEN rest ELSE Tail(rest),
                             !.status = "err",
                             !.err = ErrUnmatched]
             ELSE [st EXCEPT !.iter = Tail(rest),
                             !.fixed = push_close_escape(st.fixed)]
        ELSE [st EXCEPT !.iter = rest, !.fixed = Append(st.fixed, fmt_char)]

\* parse_fmt_str, lines 455-489, from a state of its loop to its return
RECURSIVE run_loop(_)
run_loop(st) ==
    IF st.status # "running" THEN st
    ELSE IF st.iter = <<>> THEN [st EXCEPT !.status = "ok"]
    ELSE run_loop(loop_body(st))

parse_fmt_str(template, idents) == run_loop(FmtStart(template, idents))

Cur == FmtState(fmt_iter, fixed_format_str, arg_idents, kept_arg_idents,
                result, error, emitted)

Becomes(st) ==
    /\ fmt_iter' = st.iter
    /\ fixed_format_str' = st.fixed
    /\ arg_idents' = st.args
    /\ kept_arg_idents' = st.kept
    /\ result' = st.status
    /\ error' = st.err
    /\ emitted' = st.emitted
    /\ UNCHANGED <<fmt_str, idents0, rvars, wvars, bvars>>

InitFmt ==
    /\ fmt_str \in Templates
    /\ idents0 \in ArgLists
    /\ fmt_iter = fmt_str
    /\ arg_idents = idents0
    /\ kept_arg_idents = <<>>
    /\ fixed_format_str = <<>>
    /\ result = "running"
    /\ error = <<>>
    /\ emitted = <<>>
    /\ unused_r
    /\ unused_w
    /\ unused_b

Running == result = "running" /\ fmt_iter # <<>>

Peek == IF Len(fmt_iter) > 1 THEN fmt_iter[2] ELSE "EOF"

\* '{' followed by '{', lines 465-467
OpenEscape ==
    /\ Running
    /\ Head(fmt_iter) = "{" /\ Peek = "{"
    /\ Becomes(loop_body(Cur))

\* '{' that opens a placeholder, lines 468-473
Interpolate ==
    /\ Running
    /\ Head(fmt_iter) = "{" /\ Peek # "{"
    /\ Becomes(loop_body(Cur))

\* '}', lines 475-484
CloseBrace ==
    /\ Running
    /\ Head(fmt_iter) = "}"
    /\ Becomes(loop_body(Cur))

\* any other character, line 485
Literal ==
    /\ Running
    /\ Head(fmt_iter) \notin {"{", "}"}
    /\ Becomes(loop_body(Cur))

\* the iterator is exhausted, line 488
Finish ==
    /\ result = "running"
    /\ fmt_iter = <<>>
    /\ Becomes([Cur EXCEPT !.status = "ok"])

NextFmt == OpenEscape \/ Interpolate \/ CloseBrace \/ Literal \/ Finish

SpecFmt == InitFmt /\ [][NextFmt]_vars

(***************************************************************************)
(* Reading a template and a positional format string by their grammar,     *)
(* independently of parse_fmt_str                                          *)
(***************************************************************************)
Done == result \in {"ok", "err"}

\* 1-based index of the first c in s at or after i, 0 when there is none
RECURSIVE index_of(_, _, _)
index_of(s, c, i) ==
    IF i > Len(s) THEN 0
    ELSE IF s[i] = c THEN i
    ELSE index_of(s, c, i + 1)

\* the placeholders of a template: after an unescaped '{', the text up to
\* the next '}' (closed), or up to the end of the template (not closed)
RECURSIVE placeholders(_)
placeholders(s) ==
    IF s = <<>> THEN <<>>
    ELSE IF Head(s) = "{"
    THEN IF Len(s) > 1 /\ s[2] = "{"
         THEN placeholders(SubSeq(s, 3, Len(s)))
         ELSE LET j == index_of(s, "}", 2)
              IN  IF j = 0
                  THEN << [content |-> Tail(s), closed |-> FALSE] >>
                  ELSE << [content |-> SubSeq(s, 2, j - 1), closed |-> TRUE] >>
                         \o placeholders(SubSeq(s, j + 1, Len(s)))
    ELSE placeholders(Tail(s))

\* a template of literal characters and the escapes {{ and }} only
RECURSIVE is_literal_template(_)
is_literal_template(s) ==
    IF s = <<>> THEN TRUE
    ELSE IF Head(s) \in {"{", "}"}
    THEN /\ Len(s) > 1
         /\ s[2] = Head(s)
         /\ is_literal_template(SubSeq(s, 3, Len(s)))
    ELSE is_literal_template(Tail(s))

RECURSIVE from_decimal(_)
from_decimal(ds) ==
    IF ds = <<>> THEN 0
    ELSE 10 * from_decimal(Front(ds)) + position(Digits, Last(ds))

\* the position p of an emitted placeholder {p:spec}
placeholder_position(text) == from_decimal(SubSeq(text, 2, index_of(text, ":", 1) - 1))

\* the format spec of an emitted placeholder {p:spec}
placeholder_spec(text) == SubSeq(text, index_of(text, ":", 1) + 1, Len(text) - 1)

RECURSIVE first_occurrences(_)
first_occurrences(s) ==
    IF s = <<>> THEN <<>>
    ELSE LET f == first_occurrences(Front(s))
         IN  IF position(f, Last(s)) # -1 THEN f ELSE Append(f, Last(s))

EmittedIdents == [i \in 1..Len(emitted) |-> emitted[i].ident]

\* C4: in a successful compilation every emitted placeholder {p:spec} of
\* identifier x has p = the 1-based index of x in the used list, the used
\* list holds each referenced identifier once, in order of first occurrence,
\* and all occurrences of an identifier get the same position.
PositionsIndexUsedList ==
    result = "ok" =>
        /\ \A i \in 1..Len(emitted) :
              LET p == placeholder_position(emitted[i].text)
              IN  /\ p \in 1..Len(kept_arg_idents)
                  /\ kept_arg_idents[p] = emitted[i].ident
        /\ kept_arg_idents = first_occurrences(EmittedIdents)
        /\ \A i, j \in 1..Len(emitted) :
              emitted[i].ident = emitted[j].ident
                 => placeholder_position(emitted[i].text)
                       = placeholder_position(emitted[j].text)

\* {b}{a}{a:a} against [a, b]: a is used twice with different specs
RepeatedIdentifierCompiled ==
    /\ result = "ok"
    /\ idents0 = << <<"a">>, <<"b">> >>
    /\ kept_arg_idents = << <<"b">>, <<"a">> >>
    /\ Len(emitted) = 3
    /\ emitted[2].ident = emitted[3].ident
    /\ placeholder_spec(emitted[2].text) # placeholder_spec(emitted[3].text)
    /\ placeholder_position(emitted[3].text) = 2

Names(idents) == { idents[i] : i \in 1..Len(idents) }

Outcome(st) == [status |-> st.status,
                fixed |-> IF st.status = "ok" THEN st.fixed ELSE <<>>,
                kept |-> IF st.status = "ok" THEN st.kept ELSE <<>>]

\* whitespace inside a placeholder that is not trailing whitespace
misplaced_whitespace(content) ==
    \E i \in 1..Len(content) :
        /\ is_whitespace(content[i])
        /\ \E j \in (i + 1)..Len(content) : ~is_whitespace(content[j])

\* C5: wherever the placeholder stands, prefix{x }suffix compiles to what
\* prefix{x}suffix compiles to, and whitespace elsewhere in a placeholder is
\* an error.
TrailingWhitespaceTolerated ==
    Done =>
        /\ \A i \in 1..Len(fmt_str), x \in Names(idents0) :
              LET prefix == SubSeq(fmt_str, 1, i - 1)
                  spaced == <<"{">> \o x \o <<" ", "}">>
                  suffix == SubSeq(fmt_str, i + Len(spaced), Len(fmt_str))
              IN  (/\ i + Len(spaced) - 1 <= Len(fmt_str)
                   /\ SubSeq(fmt_str, i, i + Len(spaced) - 1) = spaced
                   /\ parse_fmt_str(prefix, idents0).status = "ok")
                  => Outcome(Cur) =
                       Outcome(parse_fmt_str(prefix \o <<"{">> \o x \o <<"}">> \o suffix,
                                             idents0))
        /\ (\E k \in 1..Len(placeholders(fmt_str)) :
               misplaced_whitespace(placeholders(fmt_str)[k].content))
              => result = "err"

\* the placeholder that the next step of the loop reads
NextPlaceholder == placeholders(fmt_iter)[1]

NextName == split_once(NextPlaceholder.content)[1]

\* the loop is about to look up a name that is neither used nor available
UnknownLookup ==
    /\ Running
    /\ Head(fmt_iter) = "{" /\ Peek # "{"
    /\ NextPlaceholder.closed
    /\ \A i \in 1..Len(NextPlaceholder.content) :
          ~is_whitespace(NextPlaceholder.content[i])
    /\ NextName \notin Names(kept_arg_idents) \cup Names(arg_idents)

\* C6: a placeholder naming an identifier that is neither used nor available
\* makes the compilation fail with an error that names the identifier, and
\* the failed lookup leaves the available and the used list as they were.
UnknownIdentifierIsError ==
    [][UnknownLookup =>
          /\ result' = "err"
          /\ error' = ErrNotFound(NextName)
          /\ arg_idents' = arg_idents
          /\ kept_arg_idents' = kept_arg_idents]_vars

\* {aa} against [a, b]
UnknownIdentifierRejected ==
    /\ fmt_str = <<"{", "a", "a", "}">>
    /\ idents0 = << <<"a">>, <<"b">> >>
    /\ result = "err"
    /\ error = ErrNotFound(<<"a", "a">>)
    /\ arg_idents = idents0
    /\ kept_arg_idents = <<>>

\* C7: a template of literal characters and escapes compiles to itself with
\* an empty used list, whatever the available names; so does the empty one.
LiteralTemplateUnchanged ==
    (Done /\ is_literal_template(fmt_str)) =>
        /\ result = "ok"
        /\ fixed_format_str = fmt_str
        /\ kept_arg_idents = <<>>
        /\ arg_idents = idents0

\* a{{}} against [a, b]
EscapedTemplateCompiled ==
    /\ fmt_str = <<"a", "{", "{", "}", "}">>
    /\ idents0 = << <<"a">>, <<"b">> >>
    /\ result = "ok"
    /\ fixed_format_str = fmt_str

has_newline(content) == \E i \in 1..Len(content) : content[i] = "\n"

\* a newline followed, before the closing brace, by a non-whitespace character
newline_before_text(content) ==
    \E i \in 1..Len(content) :
        /\ content[i] = "\n"
        /\ \E j \in (i + 1)..Len(content) : ~is_whitespace(content[j])

\* C8 as stated: a raw newline or the end of the template before the closing
\* brace of a placeholder makes the compilation fail.
NewlineOrEndBeforeCloseIsError ==
    Done =>
        ((\E k \in 1..Len(placeholders(fmt_str)) :
             \/ ~placeholders(fmt_str)[k].closed
             \/ has_newline(placeholders(fmt_str)[k].content))
           => result = "err")

\* C8 amended: the end of the template before the closing brace, or a raw
\* newline followed by a non-whitespace character before the closing brace,
\* makes the compilation fail.
EndBeforeCloseIsError ==
    Done =>
        ((\E k \in 1..Len(placeholders(fmt_str)) :
             \/ ~placeholders(fmt_str)[k].closed
             \/ newline_before_text(placeholders(fmt_str)[k].content))
           => result = "err")

\* {a and a newline, never closed, against [a]
UnclosedPlaceholderRejected ==
    /\ fmt_str = <<"{", "a", "\n">>
    /\ idents0 = << <<"a">> >>
    /\ result = "err"
    /\ error = ErrTerminated

(***************************************************************************)
(* Part 3: the declaration walker (lines 169-340)                          *)
(*                                                                         *)
(* An item is a record: kind ("fn", "mod", "impl", "method", "other",      *)
(* "thread_local"), ident, attrs (the #[trace(..)] attributes still on the *)
(* item, each given by its Args), own (the item was written with a         *)
(* #[trace] of its own), semi (a `mod name;` without content), block (the  *)
(* wrappers around the original block, outermost first) and items (the     *)
(* items of a mod, the impl items of an impl).                             *)
(***************************************************************************)
MaxItems == 2
MaxNested == 1

SeqsUpTo(S, n) == UNION { [1..k -> S] : k \in 0..n }

Item(kind, ident, attrs, semi, items) ==
    [kind |-> kind, ident |-> ident, attrs |-> attrs, own |-> attrs # <<>>,
     semi |-> semi, block |-> <<>>, items |-> items]

\* args::Filter as lib.rs uses it
NoFilter == [kind |-> "None", idents |-> {}]

Filters == {NoFilter}
             \cup { [kind |-> k, idents |-> L] :
                      k \in {"Enable", "Disable"},
                      L \in SUBSET {"foo", "bar", "inner"} }

\* the Args of the outermost #[trace(..)]
OuterArgs == { [prefix_enter |-> "[+]", filter |-> f] : f \in Filters }

\* the Args of a #[trace(prefix_enter = "[ENTER]")] written on an inner item
InnerArgs == [prefix_enter |-> "[ENTER]", filter |-> NoFilter]

InnerAttrs == { <<>>, <<InnerArgs>> }

FnItems == { Item("fn", n, a, FALSE, <<>>) : n \in {"foo", "bar"}, a \in InnerAttrs }

MethodItems == { Item("method", n, a, FALSE, <<>>) : n \in {"foo", "bar"}, a \in InnerAttrs }

OtherItem == Item("other", "S", <<>>, FALSE, <<>>)

ModDecl == Item("mod", "ext", <<>>, TRUE, <<>>)

NestedItems ==
    FnItems
      \cup { Item("mod", "inner", <<>>, FALSE, items) : items \in SeqsUpTo(FnItems, MaxNested) }
      \cup { Item("impl", "", <<>>, FALSE, items) : items \in SeqsUpTo(MethodItems, MaxNested) }
      \cup { OtherItem, ModDecl }

\* what the outermost #[trace(..)] is written on, without that attribute
RootItems ==
    { Item("mod", "outer", <<>>, FALSE, items) : items \in SeqsUpTo(NestedItems, MaxItems) }
      \cup { Item("impl", "", <<>>, FALSE, items) : items \in SeqsUpTo(MethodItems, MaxItems) }
      \cup { Item(k, "foo", <<>>, FALSE, <<>>) : k \in {"fn", "method", "other"} }
      \cup { ModDecl }

\* the thread_local! { static DEPTH: .. } item of lines 278-282
DepthDecl == Item("thread_local", "DEPTH", <<>>, FALSE, <<>>)

\* the arms of `match args.filter`, lines 260-268 and 293-301
excluded(filter, ident) ==
    \/ filter.kind = "Enable" /\ ident \notin filter.idents
    \/ filter.kind = "Disable" /\ ident \in filter.idents

\* construct_traced_block, lines 342-432: the block that wraps original_block
construct_traced_block(args, attr_applied, ident, original_block) ==
    << [prefix_enter |-> args.prefix_enter, attr_applied |-> attr_applied,
        ident |-> ident] >> \o original_block

\* transform_fn, lines 233-240
transform_fn(args, attr_applied, item_fn) ==
    [item_fn EXCEPT !.block =
        construct_traced_block(args, attr_applied, item_fn.ident, item_fn.block)]

\* transform_method, lines 329-340
transform_method(args, attr_applied, impl_item_method) ==
    [impl_item_method EXCEPT !.block =
        construct_traced_block(args, attr_applied, impl_item_method.ident,
                               impl_item_method.block)]

\* transform_impl, lines 287-312
transform_impl(args, attr_applied, item_impl) ==
    [item_impl EXCEPT !.items =
        [i \in DOMAIN item_impl.items |->
            LET impl_item == item_impl.items[i]
            IN  IF impl_item.kind # "method" THEN impl_item
                ELSE IF attr_applied = "Directly"
                        /\ excluded(args.filter, impl_item.ident)
                THEN impl_item
                ELSE [impl_item EXCEPT !.block =
                        construct_traced_block(args, "Indirectly", impl_item.ident,
                                               impl_item.block)]]]

RECURSIVE transform_item(_, _, _)
RECURSIVE transform_mod(_, _, _)

\* transform_mod, lines 242-285 (a `mod name;` panics, see panics below)
transform_mod(args, attr_applied, item_mod) ==
    IF item_mod.semi THEN item_mod
    ELSE [item_mod EXCEPT !.items =
            <<DepthDecl>> \o
            [i \in DOMAIN item_mod.items |->
                LET item == item_mod.items[i]
                IN  IF /\ attr_applied = "Directly"
                       /\ item.kind \in {"fn", "mod"}
                       /\ excluded(args.filter, item.ident)
                    THEN item
                    ELSE transform_item(args, "Indirectly", item)]]

\* transform_item, lines 224-231
transform_item(args, attr_applied, item) ==
    CASE item.kind = "fn" -> transform_fn(args, attr_applied, item)
      [] item.kind = "mod" -> transform_mod(args, attr_applied, item)
      [] item.kind = "impl" -> transform_impl(args, attr_applied, item)
      [] OTHER -> item

\* transform_item reaches the unimplemented!() of line 249
RECURSIVE panics(_, _, _)
panics(args, attr_applied, item) ==
    /\ item.kind = "mod"
    /\ \/ item.semi
       \/ \E i \in DOMAIN item.items :
             /\ ~(/\ attr_applied = "Directly"
                  /\ item.items[i].kind \in {"fn", "mod"}
                  /\ excluded(args.filter, item.items[i].ident))
             /\ panics(args, "Indirectly", item.items[i])

RECURSIVE node_at(_, _)
node_at(item, path) ==
    IF path = <<>> THEN item ELSE node_at(item.items[Head(path)], Tail(path))

RECURSIVE replace_at(_, _, _)
replace_at(item, path, new) ==
    IF path = <<>> THEN new
    ELSE [item EXCEPT !.items[Head(path)] = replace_at(@, Tail(path), new)]

\* the items that carry a #[trace] and lie in no item that carries one: the
\* compiler expands attribute macros from the outside in
RECURSIVE outermost_pending(_)
outermost_pending(item) ==
    IF item.attrs # <<>> THEN {<<>>}
    ELSE UNION { { <<i>> \o q : q \in outermost_pending(item.items[i]) } :
                 i \in DOMAIN item.items }

\* the input of the macro: the item without the attribute being expanded
Input(path) == [node_at(root, path) EXCEPT !.attrs = Tail(@)]

AttrArgs(path) == Head(node_at(root, path).attrs)

InitWalk ==
    /\ outer \in OuterArgs
    /\ \E item \in RootItems : root = [item EXCEPT !.attrs = <<outer>>]
    /\ expansions = 0
    /\ wstatus = "expanding"
    /\ unused_r
    /\ unused_f
    /\ unused_b

Expanding(path) == /\ wstatus = "expanding"
                   /\ path \in outermost_pending(root)

\* trace -> expand_item, lines 186-187 and 204-212, on a fn, mod or impl
ExpandItem(path) ==
    /\ Expanding(path)
    /\ Input(path).kind \in {"fn", "mod", "impl"}
    /\ ~panics(AttrArgs(path), "Directly", Input(path))
    /\ root' = replace_at(root, path,
                          transform_item(AttrArgs(path), "Directly", Input(path)))
    /\ expansions' = expansions + 1
    /\ UNCHANGED <<outer, wstatus, rvars, fvars, bvars>>

\* trace -> expand_impl_item, lines 188-189 and 214-222, on a method
ExpandImplItem(path) ==
    /\ Expanding(path)
    /\ Input(path).kind = "method"
    /\ root' = replace_at(root, path,
                          transform_method(AttrArgs(path), "Directly", Input(path)))
    /\ expansions' = expansions + 1
    /\ UNCHANGED <<outer, wstatus, rvars, fvars, bvars>>

\* lines 209-210: "#[trace] is not supported for this item"
ExpandUnsupported(path) ==
    /\ Expanding(path)
    /\ Input(path).kind \notin {"fn", "mod", "impl", "method"}
    /\ root' = replace_at(root, path, Input(path))
    /\ expansions' = expansions + 1
    /\ wstatus' = "error"
    /\ UNCHANGED <<outer, rvars, fvars, bvars>>

\* line 249: unimplemented!() for a `mod name;`
ExpandPanics(path) ==
    /\ Expanding(path)
    /\ Input(path).kind \in {"fn", "mod", "impl"}
    /\ panics(AttrArgs(path), "Directly", Input(path))
    /\ root' = replace_at(root, path, Input(path))
    /\ expansions' = expansions + 1
    /\ wstatus' = "panic"
    /\ UNCHANGED <<outer, rvars, fvars, bvars>>

\* no #[trace] is left to expand
ExpansionDone ==
    /\ wstatus = "expanding"
    /\ outermost_pending(root) = {}
    /\ wstatus' = "done"
    /\ UNCHANGED <<root, outer, expansions, rvars, fvars, bvars>>

Paths == SeqsUpTo(1..(MaxItems + MaxNested + 1), 2)

NextWalk ==
    \/ \E path \in Paths : ExpandItem(path)
    \/ \E path \in Paths : ExpandImplItem(path)
    \/ \E path \in Paths : ExpandUnsupported(path)
    \/ \E path \in Paths : ExpandPanics(path)
    \/ ExpansionDone

SpecWalk == InitWalk /\ [][NextWalk]_vars

\* the functions and methods inside an item, at any depth
RECURSIVE functions_in(_)
functions_in(item) ==
    UNION { (IF item.items[i].kind \in {"fn", "method"}
             THEN {item.items[i]} ELSE {})
              \cup functions_in(item.items[i]) : i \in DOMAIN item.items }

\* the outermost #[trace(..)], written on a mod or an impl, has been expanded
OuterExpanded ==
    /\ expansions = 1
    /\ wstatus = "expanding"
    /\ root.kind \in {"mod", "impl"}

\* C9: applied to a mod or impl, an enable list leaves every function or
\* method inside that is not in the list untouched; a disable list leaves
\* those in the list untouched and instruments all the others; at any depth.
FilterDecidesInstrumentation ==
    OuterExpanded =>
        \A f \in functions_in(root) :
            /\ (outer.filter.kind = "Enable" /\ f.ident \notin outer.filter.idents)
                  => f.block = <<>>
            /\ (outer.filter.kind = "Disable" /\ f.ident \in outer.filter.idents)
                  => f.block = <<>>
            /\ (outer.filter.kind = "Disable" /\ f.ident \notin outer.filter.idents)
                  => f.block # <<>>

\* C10: a function or method that carries its own #[trace] inside a traced
\* mod or impl ends up wrapped exactly once, with the outer configuration.
OnlyOutermostTraceIsUsed ==
    (/\ wstatus = "done"
     /\ root.kind \in {"mod", "impl"}
     /\ outer.filter = NoFilter)
       => \A f \in functions_in(root) :
              f.own => /\ Len(f.block) = 1
                       /\ f.block[1].prefix_enter = outer.prefix_enter

(***************************************************************************)
(* Part 4: construct_traced_block and extract_arg_idents (lines 342-432    *)
(* and 581-631)                                                            *)
(*                                                                         *)
(* A pattern is a record: kind ("Ident", "Tuple", "Other"), ident, elems.  *)
(* An input of a signature is a record: kind ("Receiver", "Typed"), pat.   *)
(* An Option is a sequence of at most one element.                         *)
(***************************************************************************)
MaxInputs == 2
MaxElems == 2

PatIdent(n) == [kind |-> "Ident", ident |-> n, elems |-> <<>>]

PatTuple(elems) == [kind |-> "Tuple", ident |-> <<>>, elems |-> elems]

\* a pattern that is neither a name nor a tuple, such as `_` or `S { x }`
PatOther == [kind |-> "Other", ident |-> <<>>, elems |-> <<>>]

ParamNames == { <<"a">>, <<"b">> }

ElemPats == { PatIdent(n) : n \in ParamNames }

\* (a, (b, a)) and (a, _)
NestedPats ==
    { PatTuple(<<PatIdent(<<"a">>), PatTuple(<<PatIdent(<<"b">>), PatIdent(<<"a">>)>>)>>),
      PatTuple(<<PatIdent(<<"a">>), PatOther>>) }

Pats == ElemPats
          \cup { PatOther }
          \cup { PatTuple(elems) : elems \in SeqsUpTo(ElemPats, MaxElems) }
          \cup NestedPats

Receiver == [kind |-> "Receiver", pat |-> PatOther]

Typed(pat) == [kind |-> "Typed", pat |-> pat]

Sigs == { [ident |-> <<"f", "o", "o">>, inputs |-> inputs] :
            inputs \in SeqsUpTo({Receiver} \cup { Typed(pat) : pat \in Pats }, MaxInputs) }

BlockFilters == { NoFilter,
                  [kind |-> "Enable", idents |-> {}],
                  [kind |-> "Enable", idents |-> {<<"a">>}],
                  [kind |-> "Disable", idents |-> {<<"a">>}],
                  [kind |-> "Disable", idents |-> {<<"a">>, <<"b">>}] }

\* pretty, format_enter and format_exit as Args::from_raw_args lets them
\* through: a custom format is never combined with pretty
BlockFormats ==
    { [pretty |-> FALSE, format_enter |-> <<>>, format_exit |-> <<>>],
      [pretty |-> TRUE, format_enter |-> <<>>, format_exit |-> <<>>],
      [pretty |-> FALSE, format_enter |-> << <<"{", "b", "}">> >>,
       format_exit |-> << <<"{", "r", "}">> >>] }

BlockArgs ==
    { [prefix_enter |-> <<"[", "+", "]">>, prefix_exit |-> <<"[", "-", "]">>,
       filter |-> f, pause |-> FALSE, logging |-> FALSE, pretty |-> o.pretty,
       format_enter |-> o.format_enter, format_exit |-> o.format_exit] :
        f \in BlockFilters, o \in BlockFormats }

push_ident_filter_always(args, attr_applied, ident, idents) ==
    IF excluded(args.filter, ident) THEN idents ELSE Append(idents, ident)

\* the Pat::Ident arm of process_pat, lines 593-609
push_ident(args, attr_applied, ident, idents) ==
    IF attr_applied = "Directly" /\ excluded(args.filter, ident)
    THEN idents
    ELSE Append(idents, ident)

\* the match of process_pat over a list of patterns, lines 592-616: a tuple
\* is replaced by its elements, pat_tuple.elems.iter().for_each(..)
RECURSIVE process_elems(_, _, _, _)
process_elems(args, attr_applied, elems, idents) ==
    IF elems = <<>> THEN idents
    ELSE LET pat == Head(elems)
         IN  CASE pat.kind = "Ident" ->
                    process_elems(args, attr_applied, Tail(elems),
                                  push_ident(args, attr_applied, pat.ident, idents))
               [] pat.kind = "Tuple" ->
                    process_elems(args, attr_applied, pat.elems \o Tail(elems), idents)
               [] OTHER -> process_elems(args, attr_applied, Tail(elems), idents)

\* process_pat, lines 586-617 (the unimplemented!() arm is pat_panics)
process_pat(args, attr_applied, pat, idents) ==
    process_elems(args, attr_applied, <<pat>>, idents)

\* process_pat reaches the unimplemented!() of line 615
RECURSIVE pat_panics(_)
pat_panics(pat) ==
    \/ pat.kind = "Other"
    \/ /\ pat.kind = "Tuple"
       /\ \E i \in DOMAIN pat.elems : pat_panics(pat.elems[i])

\* the for loop of extract_arg_idents, lines 619-630
RECURSIVE extract_from(_, _, _, _)
extract_from(args, attr_applied, inputs, idents) ==
    IF inputs = <<>> THEN idents
    ELSE extract_from(args, attr_applied, Tail(inputs),
             IF Head(inputs).kind = "Receiver" THEN idents
             ELSE process_pat(args, attr_applied, Head(inputs).pat, idents))

\* extract_arg_idents, lines 581-631
extract_arg_idents(args, attr_applied, sig) ==
    extract_from(args, attr_applied, sig.inputs, <<>>)

\* [String]::join
RECURSIVE join(_, _)
join(strs, sep) ==
    IF strs = <<>> THEN <<>>
    ELSE IF Len(strs) = 1 THEN strs[1]
    ELSE strs[1] \o sep \o join(Tail(strs), sep)

\* format!("{} = {{:?}}", arg_ident), line 358
default_arg_format(arg_ident) == arg_ident \o <<" ", "=", " ", "{", ":", "?", "}">>

\* a format string with the identifiers it prints, as parse_fmt_str returns them
Formatted(str, idents) == FmtState(<<>>, str, <<>>, idents, "ok", <<>>, <<>>)

\* lines 354-363: the default enter format and its arguments
default_enter_format(idents) ==
    Formatted(join([i \in DOMAIN idents |-> default_arg_format(idents[i])],
                   <<",", " ">>),
              idents)

\* line 368: exit_val
exit_val == << <<"r">> >>

\* lines 371-374: the default exit format
default_exit_format(pretty) ==
    IF pretty THEN Formatted(<<"{", ":", "#", "?", "}">>, exit_val)
    ELSE Formatted(<<"{", ":", "?", "}">>, exit_val)

DepthPad == <<"{", ":", "d", "e", "p", "t", "h", "$", "}">>

\* format!("{{:depth$}}{} Entering {}({})", ..), lines 377-388
entering_format_of(args, sig, enter_format) ==
    DepthPad \o args.prefix_enter \o <<" ", "E", "n", "t", "e", "r", "i", "n", "g", " ">>
      \o sig.ident \o <<"(">> \o enter_format \o <<")">>

\* format!("{{:depth$}}{} Exiting {} = {}", ..), lines 389-400
exiting_format_of(args, sig, exit_format) ==
    DepthPad \o args.prefix_exit \o <<" ", "E", "x", "i", "t", "i", "n", "g", " ">>
      \o sig.ident \o <<" ", "=", " ">> \o exit_format

NoFormat == Formatted(<<>>, <<>>)

NoBlock == [kind |-> "none", entering_format |-> <<>>, arg_idents |-> <<>>,
            exiting_format |-> <<>>, should_interpolate |-> FALSE,
            pause |-> FALSE, printer |-> "", error |-> <<>>]

\* the locals of construct_traced_block
Locals(pc, inputs, idents, enter, exit, block) ==
    [pc |-> pc, inputs |-> inputs, arg_idents |-> idents,
     enter |-> enter, exit |-> exit, block |-> block]

InitBlock ==
    /\ cb_args \in BlockArgs
    /\ cb_attr_applied \in {"Directly", "Indirectly"}
    /\ cb_sig \in Sigs
    /\ cb = Locals("extract", cb_sig.inputs, <<>>, NoFormat, NoFormat, NoBlock)
    /\ unused_r
    /\ unused_f
    /\ unused_w

Extracting == cb.pc = "extract" /\ cb.inputs # <<>>

BlockStep(new) ==
    /\ cb' = new
    /\ UNCHANGED <<cb_args, cb_attr_applied, cb_sig, rvars, fvars, wvars>>

\* line 623: syn::FnArg::Receiver(_) => ()
ExtractReceiver ==
    /\ Extracting
    /\ Head(cb.inputs).kind = "Receiver"
    /\ BlockStep([cb EXCEPT !.inputs = Tail(@)])

\* lines 624-626: syn::FnArg::Typed(arg_typed) => process_pat(..)
ExtractTyped ==
    /\ Extracting
    /\ Head(cb.inputs).kind = "Typed"
    /\ ~pat_panics(Head(cb.inputs).pat)
    /\ BlockStep([cb EXCEPT
                    !.inputs = Tail(@),
                    !.arg_idents = process_pat(cb_args, cb_attr_applied,
                                               Head(cb.inputs).pat, @)])

\* line 615: unimplemented!()
ExtractUnsupported ==
    /\ Extracting
    /\ Head(cb.inputs).kind = "Typed"
    /\ pat_panics(Head(cb.inputs).pat)
    /\ BlockStep([cb EXCEPT !.pc = "panic"])

\* line 630: extract_arg_idents returns
ExtractDone ==
    /\ cb.pc = "extract"
    /\ cb.inputs = <<>>
    /\ BlockStep([cb EXCEPT !.pc = "enter_format"])

\* lines 352-353: parse_fmt_str(format_enter, arg_idents)
FormatEnterCustom ==
    /\ cb.pc = "enter_format"
    /\ cb_args.format_enter # <<>>
    /\ BlockStep([cb EXCEPT !.pc = "exit_format",
                            !.enter = parse_fmt_str(cb_args.format_enter[1],
                                                    cb.arg_idents)])

\* lines 354-363: name = {:?}, ..
FormatEnterDefault ==
    /\ cb.pc = "enter_format"
    /\ cb_args.format_enter = <<>>
    /\ BlockStep([cb EXCEPT !.pc = "exit_format",
                            !.enter = default_enter_format(cb.arg_idents)])

\* lines 369-370: parse_fmt_str(format_exit, [r])
FormatExitCustom ==
    /\ cb.pc = "exit_format"
    /\ cb_args.format_exit # <<>>
    /\ BlockStep([cb EXCEPT !.pc = "assemble",
                            !.exit = parse_fmt_str(cb_args.format_exit[1], exit_val)])

\* lines 371-372
FormatExitPretty ==
    /\ cb.pc = "exit_format"
    /\ cb_args.format_exit = <<>>
    /\ cb_args.pretty
    /\ BlockStep([cb EXCEPT !.pc = "assemble", !.exit = default_exit_format(cb_args.pretty)])

\* lines 373-374
FormatExitDebug ==
    /\ cb.pc = "exit_format"
    /\ cb_args.format_exit = <<>>
    /\ ~cb_args.pretty
    /\ BlockStep([cb EXCEPT !.pc = "assemble", !.exit = default_exit_format(cb_args.pretty)])

\* lines 383-386 and 395-398: the block is the compile error
AssembleError ==
    /\ cb.pc = "assemble"
    /\ cb.enter.status = "err" \/ cb.exit.status = "err"
    /\ BlockStep([cb EXCEPT
                    !.pc = "done",
                    !.block = [NoBlock EXCEPT
                                 !.kind = "compile_error",
                                 !.error = IF cb.enter.status = "err" THEN cb.enter.err
                                           ELSE cb.exit.err]])

\* lines 376-431: the traced block
Assemble ==
    /\ cb.pc = "assemble"
    /\ cb.enter.status = "ok" /\ cb.exit.status = "ok"
    /\ BlockStep([cb EXCEPT
                    !.pc = "done",
                    !.block = [kind |-> "traced",
                               entering_format |->
                                   entering_format_of(cb_args, cb_sig, cb.enter.fixed),
                               arg_idents |-> cb.enter.kept,
                               exiting_format |->
                                   exiting_format_of(cb_args, cb_sig, cb.exit.fixed),
                               should_interpolate |-> cb.exit.kept # <<>>,
                               pause |-> cb_args.pause,
                               printer |-> IF cb_args.logging THEN "log::trace!"
                                           ELSE "println!",
                               error |-> <<>>]])

NextBlock ==
    \/ ExtractReceiver
    \/ ExtractTyped
    \/ ExtractUnsupported
    \/ ExtractDone
    \/ FormatEnterCustom
    \/ FormatEnterDefault
    \/ FormatExitCustom
    \/ FormatExitPretty
    \/ FormatExitDebug
    \/ AssembleError
    \/ Assemble

SpecBlock == InitBlock /\ [][NextBlock]_vars

\* the simple names of a pattern, tuples flattened from left to right
RECURSIVE names_of(_)
names_of(pat) ==
    IF pat.kind = "Ident" THEN <<pat.ident>>
    ELSE IF pat.kind = "Tuple"
    THEN Flatten([i \in DOMAIN pat.elems |-> names_of(pat.elems[i])])
    ELSE <<>>

\* the simple names of a signature in declaration order, `self` skipped
declared_names(sig) ==
    Flatten([i \in DOMAIN sig.inputs |->
                IF sig.inputs[i].kind = "Receiver" THEN <<>>
                ELSE names_of(sig.inputs[i].pat)])

passes(name) ==
    \/ cb_attr_applied = "Indirectly"
    \/ cb_args.filter.kind = "None"
    \/ cb_args.filter.kind = "Enable" /\ name \in cb_args.filter.idents
    \/ cb_args.filter.kind = "Disable" /\ name \notin cb_args.filter.idents

\* C11: extract_arg_idents returns, in declaration order with tuples
\* flattened and `self` skipped, exactly the names that pass the filter: all
\* of them without a filter or when applied Indirectly, those in L for
\* Enable(L) and those not in L for Disable(L) when applied Directly.
ExtractedNamesPassFilter ==
    cb.pc \in {"enter_format", "exit_format", "assemble", "done"} =>
        /\ cb.arg_idents = SelectSeq(declared_names(cb_sig), passes)
        /\ cb.arg_idents = extract_arg_idents(cb_args, cb_attr_applied, cb_sig)

\* fn foo(&self, (a, b): ..) under a direct #[trace(enable(a))]
TupleFilteredDirectly ==
    /\ cb.pc = "enter_format"
    /\ cb_attr_applied = "Directly"
    /\ cb_args.filter = [kind |-> "Enable", idents |-> {<<"a">>}]
    /\ cb_sig.inputs = <<Receiver,
                         Typed(PatTuple(<<PatIdent(<<"a">>), PatIdent(<<"b">>)>>))>>
    /\ cb.arg_idents = << <<"a">> >>

value_placeholders(format) ==
    LET ps == placeholders(format)
    IN  [i \in 1..(Len(ps) - 1) |-> ps[i + 1].content]

\* C12: without custom templates every value placeholder of the entry and
\* of the exit message is {:#?} when pretty is set and {:?} when it is not.
PrettySelectsPlaceholders ==
    (/\ cb.pc = "done"
     /\ cb.block.kind = "traced"
     /\ cb_args.format_enter = <<>>
     /\ cb_args.format_exit = <<>>)
       => LET want == IF cb_args.pretty THEN <<":", "#", "?">> ELSE <<":", "?">>
              enter == value_placeholders(cb.block.entering_format)
              exit == value_placeholders(cb.block.exiting_format)
          IN  /\ Len(enter) = Len(cb.block.arg_idents)
              /\ \A i \in DOMAIN enter : enter[i] = want
              /\ Len(exit) = 1
              /\ \A i \in DOMAIN exit : exit[i] = want

====
